---- MODULE Spec2Model ----
(***************************************************************************)
(* Tracked-repository lifecycle of detect-secrets-server:                  *)
(* BaseTrackedRepo (detect_secrets_server/repos/base_tracked_repo.py).     *)
(*                                                                         *)
(* One in-memory tracked repo object (`self`), the tracked files of the    *)
(* storage root (`files`), the remote repository's branch, and the local   *)
(* clone the storage keeps.  Every method of BaseTrackedRepo is one        *)
(* action; the remote repository and the clone's object store change       *)
(* through environment actions.                                            *)
(*                                                                         *)
(* Spec      every method, on one object                                   *)
(* ScanSpec  scan() and update(), each scan observed with its inputs       *)
(* CycleSpec the caller's scan(), update(), save() cycle, with its history *)
(* LoadSpec  save() and load_from_file() over tracked files that can be    *)
(*           damaged                                                       *)
(* ConcSpec  two processes calling save() on one storage root, the         *)
(*           existence check and the put being separate steps              *)
(***************************************************************************)
EXTENDS Naturals, Sequences, FiniteSets

\* ------------------------------------------------------------------ bounds
\* Commits ever created in the remote repository: 1..MaxCommit, numbered in
\* the order of their creation (a smaller number is an older commit).
MaxCommit == 2
\* Distinct secrets the scan engine can report: 1..NumSecrets.
NumSecrets == 2
\* Longest sequence of lines the user types at the override prompt.
MaxInputs == 2

Commits == 1..MaxCommit
Secrets == 1..NumSecrets

\* sha '' (no commit scanned yet)
NoSha == 0

\* ------------------------------------------------------------- identities
\* A repository is named by its git URL or local path, modelled as the
\* sequence of its components; the last component is what remains when the
\* host part of a URL is dropped.
RepoA == << "git@host", "a" >>
RepoB == << "b" >>
Repos == { RepoA, RepoB }

\* The attribute self.storage of an object constructed without
\* base_temp_dir does not exist.
NoStorage == << >>

\* OverrideLevel
NEVER == "NEVER"
ASK_USER == "ASK_USER"
ALWAYS == "ALWAYS"
OverrideLevel == {NEVER, ASK_USER, ALWAYS}

\* Exceptions an operation ends with ("none": it returned).
NoError == "none"
\* reading self.storage on an object that has no such attribute
NotInitializedError == "AttributeError"
CalledProcessError == "CalledProcessError"
FileNotFoundError == "FileNotFoundError"
EOFError == "EOFError"
\* PluginsConfigParser.from_config on a config it cannot decode
ConfigDecodeError == "ConfigDecodeError"

\* --------------------------------------------------------------- storage
\* storage.repository_name of a storage set up for repo_url
repository_name(repo_url) == << repo_url[Len(repo_url)] >>

\* storage.hash_filename(name): deterministic and injective
hash_filename(name) == << "sha512", name >>

\* storage.get_tracked_file_location(key): the path put(key, ...) writes and
\* get(key) reads
get_tracked_file_location(key) == << "tracked", key, ".json" >>

\* os.path.isfile(path) over the tracked files
isfile(fs, path) == path \in DOMAIN fs

\* storage.put(key, data): the whole file is rewritten
put(fs, key, data) ==
    LET path == get_tracked_file_location(key)
    IN  [p \in DOMAIN fs \cup {path} |-> IF p = path THEN data ELSE fs[p]]

\* storage.get(key)
get(fs, key) == fs[get_tracked_file_location(key)]

\* ---------------------------------------------------- PluginsConfigParser
\* In memory (to_args) every plugin option is a one-element list; in the
\* tracked file (to_config) it is the bare value.
to_config(args) == [k \in DOMAIN args |-> args[k][1]]
to_args(config) == [k \in DOMAIN config |-> << config[k] >>]

\* The options the plugins have; from_config decodes a mapping of these
\* options alone.
PluginOptions == {"hex_limit", "base64_limit"}
valid_config(config) == DOMAIN config \subseteq PluginOptions

\* A plugins field that from_config cannot decode.
MalformedConfig == [hex_limit |-> 3, no_such_option |-> 0]

\* The repositories the callers track, each with the constructor arguments
\* (other than sha and base_temp_dir) they supply for it.
Tracked ==
    { [repo |-> RepoA,
       plugins |-> [hex_limit |-> << 3 >>],
       baseline_filename |-> ".secrets.baseline",
       exclude_regex |-> "",
       cron |-> ""],
      [repo |-> RepoB,
       plugins |-> [hex_limit |-> << 4 >>, base64_limit |-> << 5 >>],
       baseline_filename |-> "",
       exclude_regex |-> "tests/.*",
       cron |-> "0 0 * * *"] }

\* ----------------------------------------------------------------- state
VARIABLES
    self,        \* the tracked repo object the caller holds
    files,       \* tracked files of the storage root: path -> file contents
    remote,      \* the remote repository's branch, oldest commit first
    nextCommit,  \* number of the next commit created in the remote
    clone,       \* the storage's clone: [branch, objects]
    sys_stdout,  \* what sys.stdout is bound to
    last,        \* the last step: the method called, its inputs, its outcome
    hist,        \* the scan/update/save cycle the caller is in
    procs        \* the processes that save concurrently: their calls of save()

vars == << self, files, remote, nextCommit, clone, sys_stdout, last, hist, procs >>


Range(s) == { s[i] : i \in 1..Len(s) }

\* ------------------------------------------------------- BaseTrackedRepo
\* __init__: the fields are stored as given; the storage is set up for repo
\* only when base_temp_dir is given.
BaseTrackedRepo(repo, sha, plugins, baseline_filename, exclude_regex, cron, base_temp_dir) ==
    [last_commit_hash |-> sha,
     repo |-> repo,
     crontab |-> cron,
     plugin_config |-> plugins,
     baseline_filename |-> baseline_filename,
     exclude_regex |-> exclude_regex,
     storage |-> IF base_temp_dir THEN repo ELSE NoStorage]

\* property name
name(s) == repository_name(s.storage)

\* Mutant of __dict__: the attributes of the instance, as object.__dict__
\* gives them.
instance_dict(s) == s

\* property __dict__: what is written to the tracked file
__dict__(s) ==
    [sha |-> s.last_commit_hash,
     repo |-> s.repo,
     plugins |-> to_config(s.plugin_config),
     cron |-> s.crontab,
     baseline_filename |-> s.baseline_filename,
     exclude_regex |-> s.exclude_regex]

\* modify_tracked_file_contents
modify_tracked_file_contents(data) ==
    [data EXCEPT !.plugins = to_args(data.plugins)]

\* Mutant of load_from_file: a plugins field that cannot be decoded is
\* dropped, and the object is made without plugins.
load_lenient(repo_name, fs) ==
    LET key == hash_filename(repo_name)
    IN  IF ~isfile(fs, get_tracked_file_location(key))
        THEN [err |-> FileNotFoundError, loaded |-> FALSE]
        ELSE LET raw == get(fs, key)
                 data == IF valid_config(raw.plugins)
                         THEN modify_tracked_file_contents(raw)
                         ELSE [raw EXCEPT !.plugins = << >>]
                 output == BaseTrackedRepo(data.repo, data.sha, data.plugins,
                                           data.baseline_filename,
                                           data.exclude_regex, data.cron, FALSE)
             IN  [err |-> NoError, loaded |-> TRUE,
                  output |-> [output EXCEPT !.storage = output.repo]]

\* load_from_file(repo_name, base_directory): the tracked file is looked up
\* under the hash of the name given by the caller; storage.get raises
\* FileNotFoundError, modify_tracked_file_contents raises when the plugins
\* field cannot be decoded, and the object is made and its storage set up
\* after both.
load_from_file(repo_name, fs) ==
    LET key == hash_filename(repo_name)
    IN  IF ~isfile(fs, get_tracked_file_location(key))
        THEN [err |-> FileNotFoundError, loaded |-> FALSE]
        ELSE IF ~valid_config(get(fs, key).plugins)
        THEN [err |-> ConfigDecodeError, loaded |-> FALSE]
        ELSE LET data == modify_tracked_file_contents(get(fs, key))
                 output == BaseTrackedRepo(data.repo, data.sha, data.plugins,
                                           data.baseline_filename,
                                           data.exclude_regex, data.cron, FALSE)
             IN  [err |-> NoError, loaded |-> TRUE,
                  output |-> [output EXCEPT !.storage = output.repo]]

\* Mutant of update: the oldest commit of the branch is taken for its head.
update_to_root(s, cl) ==
    IF s.storage = NoStorage
    THEN [err |-> NotInitializedError, self |-> s]
    ELSE IF cl.branch = << >>
    THEN [err |-> CalledProcessError, self |-> s]
    ELSE [err |-> NoError,
          self |-> [s EXCEPT !.last_commit_hash = cl.branch[1]]]

\* Mutant of update: an object without storage sets one up for its repo.
update_with_setup(s, cl) ==
    IF cl.branch = << >>
    THEN [err |-> CalledProcessError, self |-> [s EXCEPT !.storage = s.repo]]
    ELSE [err |-> NoError,
          self |-> [s EXCEPT !.storage = s.repo,
                             !.last_commit_hash = cl.branch[Len(cl.branch)]]]

\* Mutant of update: the schedule is cleared along with the checkpoint
\* moving to the head.
update_clearing_cron(s, cl) ==
    IF s.storage = NoStorage
    THEN [err |-> NotInitializedError, self |-> s]
    ELSE IF cl.branch = << >>
    THEN [err |-> CalledProcessError, self |-> s]
    ELSE [err |-> NoError,
          self |-> [s EXCEPT !.last_commit_hash = cl.branch[Len(cl.branch)],
                             !.crontab = ""]]

\* Mutant of update: the parent of the head is taken (HEAD~1), when the
\* branch has one.
update_to_parent(s, cl) ==
    IF s.storage = NoStorage
    THEN [err |-> NotInitializedError, self |-> s]
    ELSE IF cl.branch = << >>
    THEN [err |-> CalledProcessError, self |-> s]
    ELSE [err |-> NoError,
          self |-> [s EXCEPT !.last_commit_hash =
                        IF Len(cl.branch) > 1 THEN cl.branch[Len(cl.branch) - 1]
                        ELSE cl.branch[1]]]

\* Mutant of update: the checkpoint moves one commit forward along the
\* branch, to the head when no commit of the branch is newer.
update_one_step(s, cl) ==
    IF s.storage = NoStorage
    THEN [err |-> NotInitializedError, self |-> s]
    ELSE IF cl.branch = << >>
    THEN [err |-> CalledProcessError, self |-> s]
    ELSE LET later == { i \in 1..Len(cl.branch) : cl.branch[i] > s.last_commit_hash }
             next == IF later = {} THEN Len(cl.branch)
                     ELSE CHOOSE i \in later : \A j \in later : i <= j
         IN  [err |-> NoError,
              self |-> [s EXCEPT !.last_commit_hash = cl.branch[next]]]

\* update(): last_commit_hash becomes the head of the clone.  The query
\* fails while the storage holds no clone.
update(s, cl) ==
    IF s.storage = NoStorage
    THEN [err |-> NotInitializedError, self |-> s]
    ELSE IF cl.branch = << >>
    THEN [err |-> CalledProcessError, self |-> s]
    ELSE [err |-> NoError,
          self |-> [s EXCEPT !.last_commit_hash = cl.branch[Len(cl.branch)]]]

\* storage.clone_and_pull_master(): the clone's branch becomes the remote's;
\* objects fetched earlier stay in the clone.
clone_and_pull_master(cl, rem) ==
    [branch |-> rem, objects |-> cl.objects \cup Range(rem)]

\* storage.get_diff(sha) raises CalledProcessError when sha names no commit
\* of the clone.
get_diff_fails(cl, sha) == sha \notin cl.objects

\* A baseline file read at HEAD: absent, empty, or a JSON text holding a
\* set of accepted secrets.
BaselineFiles ==
    { [kind |-> "absent", results |-> {}], [kind |-> "empty", results |-> {}] }
    \cup { [kind |-> "json", results |-> B] : B \in SUBSET Secrets }

\* detect_secrets.core.baseline.get_secrets_not_in_baseline
get_secrets_not_in_baseline(secrets, baseline_collection) ==
    secrets \ baseline_collection

\* Mutant of the test of the baseline: the baseline is never applied.
baseline_ignored(baseline) == FALSE

\* truth value of the string get_baseline_file returns
truthy(baseline) == baseline.kind = "json"

\* Mutant of scan: the branch for a failed diff returns without update().
scan_without_resync(s, cl, rem, sync_ok, found, baseline) ==
    IF s.storage = NoStorage
    THEN [err |-> NotInitializedError, self |-> s, clone |-> cl,
          secrets |-> {}, diffed |-> FALSE]
    ELSE IF ~sync_ok
    THEN [err |-> CalledProcessError, self |-> s, clone |-> cl,
          secrets |-> {}, diffed |-> FALSE]
    ELSE LET cl2 == clone_and_pull_master(cl, rem)
         IN  IF get_diff_fails(cl2, s.last_commit_hash)
             THEN [err |-> NoError, self |-> s,
                   clone |-> cl2, secrets |-> {}, diffed |-> FALSE]
             ELSE [err |-> NoError, self |-> s, clone |-> cl2,
                   secrets |-> IF truthy(baseline)
                               THEN get_secrets_not_in_baseline(found, baseline.results)
                               ELSE found,
                   diffed |-> TRUE]

\* Mutant of scan: a scan whose diff succeeded advances the checkpoint.
scan_advancing(s, cl, rem, sync_ok, found, baseline) ==
    IF s.storage = NoStorage
    THEN [err |-> NotInitializedError, self |-> s, clone |-> cl,
          secrets |-> {}, diffed |-> FALSE]
    ELSE IF ~sync_ok
    THEN [err |-> CalledProcessError, self |-> s, clone |-> cl,
          secrets |-> {}, diffed |-> FALSE]
    ELSE LET cl2 == clone_and_pull_master(cl, rem)
         IN  IF get_diff_fails(cl2, s.last_commit_hash)
             THEN [err |-> update(s, cl2).err, self |-> update(s, cl2).self,
                   clone |-> cl2, secrets |-> {}, diffed |-> FALSE]
             ELSE [err |-> NoError, self |-> update(s, cl2).self, clone |-> cl2,
                   secrets |-> IF truthy(baseline)
                               THEN get_secrets_not_in_baseline(found, baseline.results)
                               ELSE found,
                   diffed |-> TRUE]

\* Mutant of scan: clone_and_pull_master is called inside the try block, so
\* that its failure is handled like a failure of get_diff.
scan_sync_in_try(s, cl, rem, sync_ok, found, baseline) ==
    IF s.storage = NoStorage
    THEN [err |-> NotInitializedError, self |-> s, clone |-> cl,
          secrets |-> {}, diffed |-> FALSE]
    ELSE IF ~sync_ok
    THEN [err |-> update(s, cl).err, self |-> update(s, cl).self, clone |-> cl,
          secrets |-> {}, diffed |-> FALSE]
    ELSE LET cl2 == clone_and_pull_master(cl, rem)
         IN  IF get_diff_fails(cl2, s.last_commit_hash)
             THEN [err |-> update(s, cl2).err, self |-> update(s, cl2).self,
                   clone |-> cl2, secrets |-> {}, diffed |-> FALSE]
             ELSE [err |-> NoError, self |-> s, clone |-> cl2,
                   secrets |-> IF truthy(baseline)
                               THEN get_secrets_not_in_baseline(found, baseline.results)
                               ELSE found,
                   diffed |-> TRUE]

\* scan(): sync_ok is whether clone_and_pull_master succeeds, found is what
\* scan_diff finds in the diff, baseline is the baseline file at HEAD.
scan(s, cl, rem, sync_ok, found, baseline) ==
    IF s.storage = NoStorage
    THEN [err |-> NotInitializedError, self |-> s, clone |-> cl,
          secrets |-> {}, diffed |-> FALSE]
    ELSE IF ~sync_ok
    THEN [err |-> CalledProcessError, self |-> s, clone |-> cl,
          secrets |-> {}, diffed |-> FALSE]
    ELSE LET cl2 == clone_and_pull_master(cl, rem)
         IN  IF get_diff_fails(cl2, s.last_commit_hash)
             THEN [err |-> update(s, cl2).err, self |-> update(s, cl2).self,
                   clone |-> cl2, secrets |-> {}, diffed |-> FALSE]
             ELSE [err |-> NoError, self |-> s, clone |-> cl2,
                   secrets |-> IF truthy(baseline)
                               THEN get_secrets_not_in_baseline(found, baseline.results)
                               ELSE found,
                   diffed |-> TRUE]

\* ------------------------------------------------------- override prompt
\* Lines the user may type.
InputLines == {"y", "N", "x"}

lower(line) == IF line = "N" THEN "n" ELSE line

\* The loop of _prompt_user_override over the lines typed: the first line
\* that is y or n once lowered; input() raises EOFError when none is left.
RECURSIVE read_override(_)
read_override(inputs) ==
    IF inputs = << >> THEN "EOF"
    ELSE IF lower(Head(inputs)) \in {"y", "n"} THEN lower(Head(inputs))
    ELSE read_override(Tail(inputs))

\* Mutant of _prompt_user_override: the answer n is taken for consent.
prompt_no_is_yes(inputs) ==
    LET override == read_override(inputs)
    IN  IF override = "EOF"
        THEN [err |-> EOFError, ret |-> FALSE, stdout |-> "stderr"]
        ELSE [err |-> NoError, ret |-> TRUE, stdout |-> "__stdout__"]

\* _prompt_user_override: sys.stdout is bound to sys.stderr, and to
\* sys.__stdout__ once an answer was read.
_prompt_user_override(inputs) ==
    LET override == read_override(inputs)
    IN  IF override = "EOF"
        THEN [err |-> EOFError, ret |-> FALSE, stdout |-> "stderr"]
        ELSE [err |-> NoError, ret |-> override # "n", stdout |-> "__stdout__"]

\* Mutant of save: the tracked file is written before the override level is
\* looked at.
save_put_first(s, fs, override_level, inputs, out) ==
    IF s.storage = NoStorage
    THEN [err |-> NotInitializedError, ret |-> FALSE, files |-> fs,
          stdout |-> out, prompted |-> FALSE]
    ELSE
    LET key == hash_filename(name(s))
        exists == isfile(fs, get_tracked_file_location(key))
        fs2 == put(fs, hash_filename(name(s)), __dict__(s))
        written == [err |-> NoError, ret |-> TRUE, files |-> fs2,
                    stdout |-> out, prompted |-> FALSE]
    IN  IF exists /\ override_level = NEVER
        THEN [err |-> NoError, ret |-> FALSE, files |-> fs2,
              stdout |-> out, prompted |-> FALSE]
        ELSE IF exists /\ override_level = ASK_USER
        THEN LET p == _prompt_user_override(inputs)
             IN  IF p.err # NoError
                 THEN [err |-> p.err, ret |-> FALSE, files |-> fs2,
                       stdout |-> p.stdout, prompted |-> TRUE]
                 ELSE IF ~p.ret
                 THEN [err |-> NoError, ret |-> FALSE, files |-> fs2,
                       stdout |-> p.stdout, prompted |-> TRUE]
                 ELSE [written EXCEPT !.stdout = p.stdout, !.prompted = TRUE]
        ELSE written

\* Mutant of save: a tracked file that exists is merged into, not replaced:
\* the sha it holds is kept.
save_keeping_sha(s, fs, override_level, inputs, out) ==
    IF s.storage = NoStorage
    THEN [err |-> NotInitializedError, ret |-> FALSE, files |-> fs,
          stdout |-> out, prompted |-> FALSE]
    ELSE
    LET key == hash_filename(name(s))
        exists == isfile(fs, get_tracked_file_location(key))
        data == IF exists THEN [__dict__(s) EXCEPT !.sha = get(fs, key).sha]
                ELSE __dict__(s)
        written == [err |-> NoError, ret |-> TRUE,
                    files |-> put(fs, key, data),
                    stdout |-> out, prompted |-> FALSE]
    IN  IF exists /\ override_level = NEVER
        THEN [err |-> NoError, ret |-> FALSE, files |-> fs,
              stdout |-> out, prompted |-> FALSE]
        ELSE IF exists /\ override_level = ASK_USER
        THEN LET p == _prompt_user_override(inputs)
             IN  IF p.err # NoError
                 THEN [err |-> p.err, ret |-> FALSE, files |-> fs,
                       stdout |-> p.stdout, prompted |-> TRUE]
                 ELSE IF ~p.ret
                 THEN [err |-> NoError, ret |-> FALSE, files |-> fs,
                       stdout |-> p.stdout, prompted |-> TRUE]
                 ELSE [written EXCEPT !.stdout = p.stdout, !.prompted = TRUE]
        ELSE written

\* Mutant of save: under ASK_USER the user is asked before the tracked file
\* is looked for.
save_asking_first(s, fs, override_level, inputs, out) ==
    IF s.storage = NoStorage
    THEN [err |-> NotInitializedError, ret |-> FALSE, files |-> fs,
          stdout |-> out, prompted |-> FALSE]
    ELSE
    LET key == hash_filename(name(s))
        exists == isfile(fs, get_tracked_file_location(key))
        written == [err |-> NoError, ret |-> TRUE,
                    files |-> put(fs, hash_filename(name(s)), __dict__(s)),
                    stdout |-> out, prompted |-> FALSE]
    IN  IF exists /\ override_level = NEVER
        THEN [err |-> NoError, ret |-> FALSE, files |-> fs,
              stdout |-> out, prompted |-> FALSE]
        ELSE IF override_level = ASK_USER
        THEN LET p == _prompt_user_override(inputs)
             IN  IF p.err # NoError
                 THEN [err |-> p.err, ret |-> FALSE, files |-> fs,
                       stdout |-> p.stdout, prompted |-> TRUE]
                 ELSE IF exists /\ ~p.ret
                 THEN [err |-> NoError, ret |-> FALSE, files |-> fs,
                       stdout |-> p.stdout, prompted |-> TRUE]
                 ELSE [written EXCEPT !.stdout = p.stdout, !.prompted = TRUE]
        ELSE written

\* Mutant of the put of save: the tracked file is created exclusively, and
\* left alone when one exists by then.
save_put_exclusive(s, fs) ==
    IF isfile(fs, get_tracked_file_location(hash_filename(name(s))))
    THEN fs
    ELSE put(fs, hash_filename(name(s)), __dict__(s))

\* save(), up to the put: the tracked file is looked for, and the override
\* level and the user decide whether save() goes on to write (proceed) or
\* returns False.
save_check(s, fs, override_level, inputs, out) ==
    IF s.storage = NoStorage
    THEN [err |-> NotInitializedError, proceed |-> FALSE,
          stdout |-> out, prompted |-> FALSE]
    ELSE
    LET key == hash_filename(name(s))
        exists == isfile(fs, get_tracked_file_location(key))
    IN  IF exists /\ override_level = NEVER
        THEN [err |-> NoError, proceed |-> FALSE,
              stdout |-> out, prompted |-> FALSE]
        ELSE IF exists /\ override_level = ASK_USER
        THEN LET p == _prompt_user_override(inputs)
             IN  [err |-> p.err, proceed |-> p.err = NoError /\ p.ret,
                  stdout |-> p.stdout, prompted |-> TRUE]
        ELSE [err |-> NoError, proceed |-> TRUE,
              stdout |-> out, prompted |-> FALSE]

\* save(), the put: the tracked file is written, whatever is at the key by
\* then, and save() returns True.
save_put(s, fs) == put(fs, hash_filename(name(s)), __dict__(s))

\* save(override_level), run without interruption
save(s, fs, override_level, inputs, out) ==
    LET c == save_check(s, fs, override_level, inputs, out)
    IN  [err |-> c.err,
         ret |-> c.proceed,
         files |-> IF c.proceed THEN save_put(s, fs) ELSE fs,
         stdout |-> c.stdout,
         prompted |-> c.prompted]

\* ---------------------------------------------------------------- actions
Inputs == UNION { [1..n -> InputLines] : n \in 0..MaxInputs }

\* What the user's lines amount to, when the prompt was shown.
Answer(prompted, inputs) == IF prompted THEN read_override(inputs) ELSE "-"

\* The caller is in no scan/update/save cycle: the object it holds has not
\* been scanned since it was made.
Idle == [phase |-> "idle", from |-> NoSha, upto |-> NoSha, head |-> NoSha]

\* No process saves concurrently.
NoProcs == << >>

\* The sha given to the constructor is '' or a commit of the repository.
Construct ==
    \E t \in Tracked, sha \in {NoSha} \cup 1..(nextCommit - 1), base_temp_dir \in BOOLEAN :
        /\ self' = BaseTrackedRepo(t.repo, sha, t.plugins, t.baseline_filename,
                                   t.exclude_regex, t.cron, base_temp_dir)
        /\ last' = [op |-> "construct", err |-> NoError]
        /\ hist' = Idle
        /\ UNCHANGED << files, remote, nextCommit, clone, sys_stdout, procs >>

Load ==
    \E repo_name \in Repos \cup { repository_name(r) : r \in Repos } :
        LET r == load_from_file(repo_name, files)
        IN  /\ self' = IF r.loaded THEN r.output ELSE self
            /\ last' = [op |-> "load", err |-> r.err, repo_name |-> repo_name]
            /\ hist' = IF r.loaded THEN Idle ELSE hist
            /\ UNCHANGED << files, remote, nextCommit, clone, sys_stdout, procs >>

NoBaseline == [kind |-> "absent", results |-> {}]

\* scan(), observed by what it does to the object and the clone: the secrets
\* it returns are not kept, and it is called with nothing or everything
\* found, without a baseline or with one that holds every secret.
Scan ==
    \E sync_ok \in BOOLEAN :
    \E found \in {{}, Secrets},
       baseline \in {NoBaseline, [kind |-> "json", results |-> Secrets]} :
        LET r == scan(self, clone, remote, sync_ok, found, baseline)
        IN  /\ self' = r.self
            /\ clone' = r.clone
            /\ last' = [op |-> "scan", err |-> r.err, sync_ok |-> sync_ok,
                        diffed |-> r.diffed]
            /\ UNCHANGED << files, remote, nextCommit, sys_stdout, hist, procs >>

\* scan(), observed together with what the scan engine found in the diff and
\* the baseline file it was given.  The diff is scanned and the baseline
\* read only once get_diff succeeded.
ScanFindings ==
    \E sync_ok \in BOOLEAN :
    \E found \in IF scan(self, clone, remote, sync_ok, {}, NoBaseline).diffed
                  THEN SUBSET Secrets ELSE {{}},
       baseline \in IF scan(self, clone, remote, sync_ok, {}, NoBaseline).diffed
                     THEN BaselineFiles ELSE {NoBaseline} :
        LET r == scan(self, clone, remote, sync_ok, found, baseline)
        IN  /\ self' = r.self
            /\ clone' = r.clone
            /\ last' = [op |-> "scan", err |-> r.err, sync_ok |-> sync_ok,
                        diffed |-> r.diffed, secrets |-> r.secrets,
                        from |-> self.last_commit_hash,
                        found |-> found, baseline |-> baseline]
            /\ UNCHANGED << files, remote, nextCommit, sys_stdout, hist, procs >>

\* update(); again: the call before it was an update() that succeeded.
Update ==
    LET r == update(self, clone)
    IN  /\ self' = r.self
        /\ last' = [op |-> "update", err |-> r.err,
                    from |-> self.last_commit_hash,
                    again |-> last.op = "update" /\ last.err = NoError]
        /\ UNCHANGED << files, remote, nextCommit, clone, sys_stdout, hist, procs >>

\* Whether a tracked file exists for the repository of s.
tracked(s, fs) ==
    /\ s.storage # NoStorage
    /\ get_tracked_file_location(hash_filename(repository_name(s.storage))) \in DOMAIN fs

\* The user types something only when the prompt is shown.
Save ==
    \E override_level \in OverrideLevel :
    \E inputs \in IF save(self, files, override_level, << >>, sys_stdout).prompted
                   THEN Inputs ELSE {<< >>} :
        LET r == save(self, files, override_level, inputs, sys_stdout)
        IN  /\ files' = r.files
            /\ sys_stdout' = r.stdout
            /\ last' = [op |-> "save", err |-> r.err, ret |-> r.ret,
                        override_level |-> override_level,
                        existed |-> tracked(self, files),
                        prompted |-> r.prompted,
                        answer |-> Answer(r.prompted, inputs)]
            /\ UNCHANGED << self, remote, nextCommit, clone, hist, procs >>

\* A step of the environment, not a method call.
Environment == [op |-> "environment", err |-> NoError]

\* A new commit is pushed to the remote.
RemoteCommit ==
    /\ nextCommit <= MaxCommit
    /\ remote' = Append(remote, nextCommit)
    /\ nextCommit' = nextCommit + 1
    /\ last' = Environment
    /\ UNCHANGED << self, files, clone, sys_stdout, hist, procs >>

\* The remote's history is rewritten: the branch is forced back to one of
\* its older commits.
RemoteRewrite ==
    \E k \in 1..(Len(remote) - 1) :
        /\ remote' = SubSeq(remote, 1, k)
        /\ last' = Environment
        /\ UNCHANGED << self, files, nextCommit, clone, sys_stdout, hist, procs >>

\* A tracked file is damaged on disk: its plugins field is no longer what
\* to_config wrote.
CorruptRecord ==
    \E path \in DOMAIN files :
        /\ valid_config(files[path].plugins)
        /\ files' = [files EXCEPT ![path].plugins = MalformedConfig]
        /\ last' = Environment
        /\ UNCHANGED << self, remote, nextCommit, clone, sys_stdout, hist, procs >>

\* The clone drops the commits its branch no longer reaches (git gc, or the
\* clone directory is recreated).
PruneClone ==
    /\ clone.objects # Range(clone.branch)
    /\ clone' = [clone EXCEPT !.objects = Range(clone.branch)]
    /\ last' = Environment
    /\ UNCHANGED << self, files, remote, nextCommit, sys_stdout, hist, procs >>

Init ==
    /\ \E t \in Tracked, sha \in {NoSha, 1}, base_temp_dir \in BOOLEAN :
           self = BaseTrackedRepo(t.repo, sha, t.plugins, t.baseline_filename,
                                  t.exclude_regex, t.cron, base_temp_dir)
    /\ files = << >>
    /\ remote = << 1 >>
    /\ nextCommit = 2
    /\ clone = [branch |-> << >>, objects |-> {}]
    /\ sys_stdout = "__stdout__"
    /\ last = [op |-> "construct", err |-> NoError]
    /\ hist = Idle
    /\ procs = NoProcs

Next ==
    \/ Construct
    \/ Load
    \/ Scan
    \/ Update
    \/ Save
    \/ RemoteCommit
    \/ RemoteRewrite
    \/ PruneClone

Spec == Init /\ [][Next]_vars

\* The scan algorithm alone, over a repository that changes: nothing is
\* saved, and every scan is observed with its inputs.
NextScan ==
    \/ Construct
    \/ ScanFindings
    \/ Update
    \/ RemoteCommit
    \/ RemoteRewrite
    \/ PruneClone

ScanSpec == Init /\ [][NextScan]_vars

\* ------------------------------------------------ scan/update/save cycle
\* The caller's cycle: scan(), then update(), then save().  hist holds the
\* phase of the cycle, the checkpoint the diff of its scan started from, the
\* head of the clone the diff went up to, and the head of the remote
\* repository when the scan was made.  Only scan() syncs the clone.
CycleScan ==
    \E sync_ok \in BOOLEAN :
    \E found \in {{}, Secrets},
       baseline \in {NoBaseline, [kind |-> "json", results |-> Secrets]} :
        LET r == scan(self, clone, remote, sync_ok, found, baseline)
        IN  /\ self' = r.self
            /\ clone' = r.clone
            /\ last' = [op |-> "scan", err |-> r.err, sync_ok |-> sync_ok,
                        diffed |-> r.diffed]
            /\ hist' = IF r.diffed
                       THEN [phase |-> "scanned",
                             from |-> self.last_commit_hash,
                             upto |-> r.clone.branch[Len(r.clone.branch)],
                             head |-> remote[Len(remote)]]
                       ELSE Idle
            /\ UNCHANGED << files, remote, nextCommit, sys_stdout, procs >>

CycleUpdate ==
    LET r == update(self, clone)
    IN  /\ self' = r.self
        /\ last' = [op |-> "update", err |-> r.err,
                    from |-> self.last_commit_hash,
                    again |-> last.op = "update" /\ last.err = NoError]
        /\ hist' = IF hist.phase \in {"scanned", "updated"} /\ r.err = NoError
                   THEN [hist EXCEPT !.phase = "updated"]
                   ELSE Idle
        /\ UNCHANGED << files, remote, nextCommit, clone, sys_stdout, procs >>

CycleSave ==
    \E override_level \in OverrideLevel :
    \E inputs \in IF save(self, files, override_level, << >>, sys_stdout).prompted
                   THEN Inputs ELSE {<< >>} :
        LET r == save(self, files, override_level, inputs, sys_stdout)
        IN  /\ files' = r.files
            /\ sys_stdout' = r.stdout
            /\ last' = [op |-> "save", err |-> r.err, ret |-> r.ret,
                        override_level |-> override_level,
                        existed |-> tracked(self, files),
                        prompted |-> r.prompted,
                        answer |-> Answer(r.prompted, inputs)]
            /\ hist' = IF hist.phase \in {"updated", "saved"}
                       THEN [hist EXCEPT !.phase = "saved"]
                       ELSE Idle
            /\ UNCHANGED << self, remote, nextCommit, clone, procs >>

NextCycle ==
    \/ Construct
    \/ CycleScan
    \/ CycleUpdate
    \/ CycleSave
    \/ RemoteCommit
    \/ RemoteRewrite
    \/ PruneClone

CycleSpec == Init /\ [][NextCycle]_vars

\* ------------------------------------------------------ concurrent saves
\* Two processes over one storage root, each holding an object of its own
\* and calling save() once.  The existence check (with the prompt, which
\* touches nothing the processes share) and the put are separate steps.
Procs == {"p", "q"}

\* The same repository as RepoA, named by another URL.
RepoA2 == << "https://host", "a" >>

ConcTracked ==
    Tracked \cup
    { [repo |-> RepoA2,
       plugins |-> [hex_limit |-> << 3 >>],
       baseline_filename |-> ".secrets.baseline",
       exclude_regex |-> "",
       cron |-> ""] }

\* What a process is about to call save() with.
Calls ==
    { [self |-> BaseTrackedRepo(t.repo, sha, t.plugins, t.baseline_filename,
                                t.exclude_regex, t.cron, TRUE),
       override_level |-> level,
       pc |-> "check", err |-> NoError, ret |-> FALSE,
       prompted |-> FALSE, answer |-> "-", stdout |-> "__stdout__"] :
      t \in ConcTracked, sha \in {NoSha, 1}, level \in OverrideLevel }

\* The tracked files when the processes start: those of any of the
\* repositories tracked earlier.
Stores ==
    { [path \in { get_tracked_file_location(hash_filename(repository_name(t.repo))) : t \in T }
         |-> LET t == CHOOSE t \in T :
                     path = get_tracked_file_location(hash_filename(repository_name(t.repo)))
             IN  __dict__(BaseTrackedRepo(t.repo, NoSha, t.plugins, t.baseline_filename,
                                          t.exclude_regex, t.cron, TRUE))] :
      T \in SUBSET Tracked }

\* No object is held outside the processes.
NoObject == << >>

ConcInit ==
    /\ procs \in [Procs -> Calls]
    /\ files \in Stores
    /\ last = [op |-> "start", proc |-> "-", start |-> files]
    /\ self = NoObject
    /\ remote = << 1 >>
    /\ nextCommit = 2
    /\ clone = [branch |-> << >>, objects |-> {}]
    /\ sys_stdout = "__stdout__"
    /\ hist = Idle

SaveCheck(p) ==
    /\ procs[p].pc = "check"
    /\ \E inputs \in IF save_check(procs[p].self, files, procs[p].override_level,
                                   << >>, procs[p].stdout).prompted
                      THEN Inputs ELSE {<< >>} :
           LET c == save_check(procs[p].self, files, procs[p].override_level,
                               inputs, procs[p].stdout)
           IN  procs' = [procs EXCEPT ![p] =
                            [@ EXCEPT !.pc = IF c.proceed THEN "put" ELSE "done",
                                      !.err = c.err,
                                      !.prompted = c.prompted,
                                      !.answer = Answer(c.prompted, inputs),
                                      !.stdout = c.stdout]]
    /\ last' = [last EXCEPT !.op = "check", !.proc = p]
    /\ UNCHANGED << self, files, remote, nextCommit, clone, sys_stdout, hist >>

SavePut(p) ==
    /\ procs[p].pc = "put"
    /\ files' = save_put(procs[p].self, files)
    /\ procs' = [procs EXCEPT ![p] = [@ EXCEPT !.pc = "done", !.ret = TRUE]]
    /\ last' = [last EXCEPT !.op = "put", !.proc = p]
    /\ UNCHANGED << self, remote, nextCommit, clone, sys_stdout, hist >>

NextConc ==
    \/ \E p \in Procs : SaveCheck(p)
    \/ \E p \in Procs : SavePut(p)

ConcSpec == ConcInit /\ [][NextConc]_vars

\* Saving and loading alone, over tracked files that can be damaged.
NextLoad ==
    \/ Construct
    \/ Save
    \/ Load
    \/ CorruptRecord

LoadSpec == Init /\ [][NextLoad]_vars


\* ------------------------------------------------------------ properties
\* A step that is a call of save(), of scan().
SaveStep == last'.op = "save"
ScanStep == last'.op = "scan"

HeadOf(branch) == branch[Len(branch)]

\* The tracked file save() addresses for the object s.
TrackedFile(s) == get_tracked_file_location(hash_filename(name(s)))

\* C1: override policy matrix of save().  For every combination of (a
\* tracked file exists at the key?, override level, answer y or n), save()
\* writes the record and returns True exactly when no file exists, or the
\* level is ALWAYS, or the level is ASK_USER and the user answers y; in the
\* two remaining cases it writes nothing and returns False.
C1_OverrideMatrix ==
    [][ (SaveStep /\ self.storage # NoStorage /\ last'.answer # "EOF") =>
        LET exists == TrackedFile(self) \in DOMAIN files
            level == last'.override_level
            proceeds == \/ ~exists
                        \/ level = ALWAYS
                        \/ level = ASK_USER /\ last'.answer = "y"
        IN  /\ last'.err = NoError
            /\ last'.ret = proceeds
            /\ proceeds => /\ TrackedFile(self) \in DOMAIN files'
                           /\ files'[TrackedFile(self)] = __dict__(self)
            /\ ~proceeds => files' = files
      ]_vars

\* C1 witness: a tracked file existed, the level was ASK_USER, the user
\* answered n and save() returned False.
C1_Witness ==
    /\ last.op = "save"
    /\ last.existed
    /\ last.override_level = ASK_USER
    /\ last.answer = "n"
    /\ last.err = NoError
    /\ ~last.ret


\* The diff of a scan() call is asked for (the object has a storage and the
\* clone was brought up to date), and get_diff fails, succeeds.
DiffFails ==
    /\ ScanStep
    /\ self.storage # NoStorage
    /\ last'.sync_ok
    /\ get_diff_fails(clone', self.last_commit_hash)

DiffSucceeds ==
    /\ ScanStep
    /\ self.storage # NoStorage
    /\ last'.sync_ok
    /\ ~get_diff_fails(clone', self.last_commit_hash)

\* C2: self-healing on an unreachable checkpoint.  Whenever computing the
\* diff from last_commit_hash fails during scan(), after the clone was
\* brought up to date, scan() raises no error, returns an empty collection
\* of secrets, and afterwards last_commit_hash is the head of the clone.
C2_SelfHealing ==
    [][ DiffFails =>
        /\ last'.err = NoError
        /\ last'.secrets = {}
        /\ self'.last_commit_hash = HeadOf(clone'.branch)
        /\ self'.last_commit_hash = HeadOf(remote)
      ]_vars

\* C2 witness: a scan whose checkpoint was a commit that the clone no
\* longer holds (the history was rewritten) ended without error, with no
\* secrets, on the head of the clone.
C2_Witness ==
    /\ last.op = "scan"
    /\ last.sync_ok
    /\ last.from \in Commits
    /\ last.from \notin clone.objects
    /\ last.err = NoError
    /\ last.secrets = {}
    /\ self.last_commit_hash = HeadOf(clone.branch)

\* C3: scan does not move the checkpoint on the success path.  For every
\* scan() call whose diff is computed, last_commit_hash after the call is
\* last_commit_hash before the call, with or without a baseline and whatever
\* is found.
C3_ScanKeepsCheckpoint ==
    [][ DiffSucceeds =>
        /\ last'.err = NoError
        /\ self'.last_commit_hash = self.last_commit_hash
      ]_vars

\* C3 witness: a scan found secrets, filtered them by a baseline, and left
\* the checkpoint behind the head of the clone.
C3_Witness ==
    /\ last.op = "scan"
    /\ last.diffed
    /\ last.err = NoError
    /\ truthy(last.baseline)
    /\ last.secrets # {}
    /\ self.last_commit_hash = last.from
    /\ self.last_commit_hash # HeadOf(clone.branch)


\* The fields of an object that the tracked file holds.
PersistedFields(s) ==
    [repo |-> s.repo,
     last_commit_hash |-> s.last_commit_hash,
     plugin_config |-> s.plugin_config,
     crontab |-> s.crontab,
     baseline_filename |-> s.baseline_filename,
     exclude_regex |-> s.exclude_regex]

\* The last step was a save() that wrote the tracked file.
Saved ==
    /\ last.op = "save"
    /\ last.err = NoError
    /\ last.ret

\* C4: save/load round trip.  A successful save() of an object with
\* identity repo, followed by load_from_file(repo, same root), succeeds and
\* yields an object whose repo, last_commit_hash, plugin_config, crontab,
\* baseline_filename and exclude_regex equal those of the saved object.
C4_RoundTrip ==
    [][ (Saved /\ last'.op = "load" /\ last'.repo_name = self.repo) =>
        /\ last'.err = NoError
        /\ PersistedFields(self') = PersistedFields(self)
      ]_vars

\* C5: the storage key is a function of the identity alone.  The key of
\* save()'s existence check, the key of its put and the key of
\* load_from_file's get are one key, so that load_from_file(repo) finds
\* what save() of the object with that repo wrote.
C5_LoadFindsSaved ==
    Saved =>
        /\ load_from_file(self.repo, files).loaded
        /\ load_from_file(self.repo, files).output.repo = self.repo


\* A step that is a call of scan(), update() or save().
MethodStep == last'.op \in {"scan", "update", "save"}

\* The commits that ever existed in the repository's history.
Existed == 1..(nextCommit - 1)

\* C6, as claimed: checkpoint monotonicity.  Over every sequence of scan(),
\* update() and save() calls interleaved with new commits and history
\* rewrites, last_commit_hash ('' apart) names a commit that existed in the
\* repository's history, and no call moves it to an older commit.
C6_NeverRolledBack ==
    [][ MethodStep =>
        /\ self'.last_commit_hash \in {NoSha} \cup Existed
        /\ self'.last_commit_hash >= self.last_commit_hash
      ]_vars

\* C6, amended: last_commit_hash is '' or a commit that existed in the
\* history; scan(), update() and save() change it only to the head of the
\* clone, and do not move it to an older commit while the commit it holds is
\* on the clone's branch.
C6_MovesToHead ==
    [][ MethodStep =>
        /\ self'.last_commit_hash \in {NoSha} \cup Existed
        /\ self'.last_commit_hash # self.last_commit_hash =>
               /\ self'.last_commit_hash = HeadOf(clone'.branch)
               /\ last'.op # "save"
        /\ self.last_commit_hash \in {NoSha} \cup Range(clone'.branch) =>
               self'.last_commit_hash >= self.last_commit_hash
      ]_vars

\* C6 witness: update() moved the checkpoint from a commit to a newer one,
\* the head of the clone.
C6_Witness ==
    /\ last.op = "update"
    /\ last.err = NoError
    /\ last.from \in Commits
    /\ self.last_commit_hash > last.from
    /\ self.last_commit_hash = HeadOf(clone.branch)

\* C7: uninitialized storage.  On an object constructed without
\* base_temp_dir, each of scan(), update() and save() fails on the missing
\* storage, sets none up, and leaves the object, the tracked files and the
\* clone as they were.
C7_NotInitialized ==
    [][ (MethodStep /\ self.storage = NoStorage) =>
        /\ last'.err = NotInitializedError
        /\ self' = self
        /\ files' = files
        /\ clone' = clone
      ]_vars

\* C7 witness: update() failed on an object without storage.
C7_Witness ==
    /\ last.op = "update"
    /\ last.err = NotInitializedError
    /\ self.storage = NoStorage

\* C8: persisted record shape and whole-record replacement.  After every
\* successful save() the tracked file under the key of the object has
\* exactly the six fields sha, repo, plugins (compact form), cron,
\* baseline_filename and exclude_regex, each with the value the object
\* holds; nothing of a record persisted before remains.
C8_PersistedShape ==
    Saved =>
        LET f == files[TrackedFile(self)]
        IN  /\ DOMAIN f = {"sha", "repo", "plugins", "cron",
                           "baseline_filename", "exclude_regex"}
            /\ f.sha = self.last_commit_hash
            /\ f.repo = self.repo
            /\ DOMAIN f.plugins = DOMAIN self.plugin_config
            /\ \A k \in DOMAIN f.plugins :
                   self.plugin_config[k] = << f.plugins[k] >>
            /\ f.cron = self.crontab
            /\ f.baseline_filename = self.baseline_filename
            /\ f.exclude_regex = self.exclude_regex

\* C8 witness: a save() under ALWAYS replaced a tracked file that existed,
\* with a checkpoint that is a commit.
C8_Witness ==
    /\ Saved
    /\ last.existed
    /\ last.override_level = ALWAYS
    /\ self.last_commit_hash \in Commits

\* C9: a declined save is a no-op.  When save() returns False, a tracked
\* file existed and the level was NEVER, or ASK_USER with the answer n; the
\* tracked files are what they were before the call and no field of the
\* object has changed.
C9_DeclinedNoOp ==
    [][ (SaveStep /\ last'.err = NoError /\ ~last'.ret) =>
        /\ TrackedFile(self) \in DOMAIN files
        /\ \/ last'.override_level = NEVER
           \/ last'.override_level = ASK_USER /\ last'.answer = "n"
        /\ files' = files
        /\ self' = self
      ]_vars

\* C9 witness: save() under NEVER returned False on a tracked file that
\* existed.
C9_Witness ==
    /\ last.op = "save"
    /\ last.err = NoError
    /\ ~last.ret
    /\ last.existed
    /\ last.override_level = NEVER

\* C10: baseline filtering.  On the success path scan() returns the secrets
\* found in the diff that are not in the baseline when the baseline file
\* read at HEAD is non-empty, and the secrets found, unfiltered, when the
\* file is absent or empty.
C10_BaselineFiltering ==
    (last.op = "scan" /\ last.diffed) =>
        /\ last.err = NoError
        /\ last.baseline.kind = "json" =>
               last.secrets = { x \in last.found : x \notin last.baseline.results }
        /\ last.baseline.kind \in {"absent", "empty"} =>
               last.secrets = last.found

\* C10 witness: a scan whose baseline holds some, not all, of the secrets
\* found returned the others.
C10_Witness ==
    /\ last.op = "scan"
    /\ last.diffed
    /\ last.baseline.kind = "json"
    /\ last.found \cap last.baseline.results # {}
    /\ last.secrets # {}
    /\ last.secrets # last.found

\* C11: idempotent update.  After any update() that succeeds,
\* last_commit_hash is the head of the clone; and an update() called right
\* after an update(), the head not having changed in between, leaves
\* last_commit_hash as the first call left it.
C11_IdempotentUpdate ==
    [][ (last'.op = "update" /\ last'.err = NoError) =>
        /\ self'.last_commit_hash = HeadOf(clone'.branch)
        /\ (last.op = "update" /\ last.err = NoError) =>
               self'.last_commit_hash = self.last_commit_hash
      ]_vars

\* C11 witness: a second update() in a row succeeded, on an object whose
\* checkpoint the first one had moved to the head of a branch of two commits.
C11_Witness ==
    /\ last.op = "update"
    /\ last.err = NoError
    /\ last.again
    /\ Len(clone.branch) > 1
    /\ self.last_commit_hash = HeadOf(clone.branch)
    /\ last.from = self.last_commit_hash

\* C12: a sync failure propagates.  When clone_and_pull_master fails at the
\* start of scan(), scan() ends with that error, returns no secrets, and
\* leaves last_commit_hash as it was: update() is not called, even when the
\* checkpoint is a commit the clone does not hold.
C12_SyncFailurePropagates ==
    [][ (ScanStep /\ self.storage # NoStorage /\ ~last'.sync_ok) =>
        /\ last'.err = CalledProcessError
        /\ last'.secrets = {}
        /\ ~last'.diffed
        /\ self' = self
      ]_vars

\* C12 witness: the sync failed in a scan whose checkpoint is a commit the
\* clone does not hold, not the head of the clone (update() would have moved
\* it);
\* the scan ended with the error and the checkpoint is what it was.
C12_Witness ==
    /\ last.op = "scan"
    /\ ~last.sync_ok
    /\ last.err = CalledProcessError
    /\ clone.branch # << >>
    /\ last.from \in Commits
    /\ last.from \notin clone.objects
    /\ last.from # HeadOf(clone.branch)
    /\ self.last_commit_hash = last.from

\* C13: a failed load constructs nothing.  load_from_file of a name with no
\* tracked file fails with FileNotFoundError (the record was not found), and
\* of a tracked file whose plugins field cannot be decoded with
\* ConfigDecodeError; in both cases no object is returned, so no storage is
\* set up for the repository, and the tracked files are unchanged.
C13_FailedLoad ==
    [][ last'.op = "load" =>
        LET path == get_tracked_file_location(hash_filename(last'.repo_name))
            r == load_from_file(last'.repo_name, files)
        IN  /\ path \notin DOMAIN files => last'.err = FileNotFoundError
            /\ (path \in DOMAIN files /\ files[path].plugins = MalformedConfig) =>
                   last'.err = ConfigDecodeError
            /\ last'.err # NoError =>
                   /\ ~r.loaded
                   /\ "output" \notin DOMAIN r
                   /\ self' = self
                   /\ files' = files
      ]_vars

\* C13 witness: the load of a tracked file that exists, with a damaged
\* plugins field, failed with ConfigDecodeError.
C13_Witness ==
    /\ last.op = "load"
    /\ last.err = ConfigDecodeError
    /\ get_tracked_file_location(hash_filename(last.repo_name)) \in DOMAIN files

\* C14: the scan, update, save cycle.  For an object whose checkpoint is c1
\* while the head of the repository is c2, scan() with a diff that succeeds,
\* then update(), then save(ALWAYS) end with last_commit_hash = c2 in the
\* object and with a tracked file whose sha is c2, whether or not a tracked
\* file existed before.
C14_Cycle ==
    (hist.phase = "saved" /\ last.op = "save" /\ last.override_level = ALWAYS) =>
        /\ last.err = NoError
        /\ last.ret
        /\ self.last_commit_hash = hist.head
        /\ TrackedFile(self) \in DOMAIN files
        /\ files[TrackedFile(self)].sha = hist.head

\* C14 witness: the cycle ended with save(ALWAYS) replacing a tracked file
\* that existed, after a scan from a commit c1 to a newer head c2.
C14_Witness ==
    /\ hist.phase = "saved"
    /\ last.op = "save"
    /\ last.override_level = ALWAYS
    /\ last.existed
    /\ hist.from \in Commits
    /\ hist.head > hist.from
    /\ files[TrackedFile(self)].sha = hist.head

\* C15: field immutability.  Over every sequence of scan(), update() and
\* save() calls, repo, plugin_config, baseline_filename, exclude_regex and
\* crontab (and the storage) keep their values; last_commit_hash alone
\* changes, and only in update(), called directly or by scan() when get_diff
\* has failed.
C15_FieldImmutability ==
    [][ MethodStep =>
        /\ self'.repo = self.repo
        /\ self'.plugin_config = self.plugin_config
        /\ self'.baseline_filename = self.baseline_filename
        /\ self'.exclude_regex = self.exclude_regex
        /\ self'.crontab = self.crontab
        /\ self'.storage = self.storage
        /\ self'.last_commit_hash # self.last_commit_hash =>
               \/ last'.op = "update"
               \/ /\ last'.op = "scan"
                  /\ last'.sync_ok
                  /\ ~last'.diffed
                  /\ get_diff_fails(clone', self.last_commit_hash)
      ]_vars

\* C15 witness: update() moved the checkpoint of an object whose other
\* fields are those it was constructed with, a schedule among them.
C15_Witness ==
    /\ last.op = "update"
    /\ last.err = NoError
    /\ last.from # self.last_commit_hash
    /\ self.crontab # ""
    /\ \E t \in Tracked :
           /\ self.repo = t.repo
           /\ self.plugin_config = t.plugins
           /\ self.baseline_filename = t.baseline_filename
           /\ self.exclude_regex = t.exclude_regex
           /\ self.crontab = t.cron

\* C20: no gap between consecutive scans.  An update() called after a
\* scan(), nothing else having synced the clone in between, sets
\* last_commit_hash to the head the diff of the scan went up to, whatever
\* was pushed to the remote in the meantime; so in a run of scan(), update()
\* cycles whose diffs succeed the diff of each scan starts where the diff of
\* the scan before it ended, and each diff ends at the head of the clone: no
\* commit of the clone lies beyond the ranges scanned.
C20_NoGap ==
    [][ /\ (hist.phase = "scanned" /\ last'.op = "update") =>
               /\ last'.err = NoError
               /\ self'.last_commit_hash = hist.upto
        /\ (hist.phase \in {"updated", "saved"} /\ hist'.phase = "scanned") =>
               hist'.from = hist.upto
        /\ hist'.phase # "idle" => hist'.upto = HeadOf(clone'.branch)
      ]_vars

\* C20 witness: a commit was pushed to the remote between the scan() and the
\* update() of a cycle; update() set the checkpoint to the head the diff had
\* gone up to, and the new commit, not in the clone yet, is left to the next
\* scan.
C20_Witness ==
    /\ hist.phase = "updated"
    /\ last.op = "update"
    /\ last.err = NoError
    /\ self.last_commit_hash = hist.upto
    /\ HeadOf(remote) > hist.upto
    /\ HeadOf(remote) \notin clone.objects

\* C18: the override prompt is consulted only on conflict under ASK_USER.
\* save() asks the user exactly when a tracked file exists at the key and the
\* level is ASK_USER; when no tracked file exists, or the level is NEVER or
\* ALWAYS, it reads no input.
C18_PromptOnlyOnConflict ==
    last.op = "save" =>
        last.prompted = (last.existed /\ last.override_level = ASK_USER)

\* C18 witness: under ASK_USER, with a tracked file at the key, the user was
\* asked, answered y after a line that is no answer, and the file was
\* written.
C18_Witness ==
    /\ last.op = "save"
    /\ last.existed
    /\ last.override_level = ASK_USER
    /\ last.prompted
    /\ last.answer = "y"
    /\ last.ret

\* C19: the output stream is restored around the prompt.  On every exit
\* path of _prompt_user_override (the answer y, the answer n, lines that
\* are no answer first, or input() failing), sys.stdout is afterwards bound
\* to what it was bound to before the prompt.
C19_StdoutRestored ==
    [][ (SaveStep /\ last'.prompted) => sys_stdout' = sys_stdout ]_vars

\* Every process has returned from save().
AllDone == \A p \in Procs : procs[p].pc = "done"

\* Lines that amount to the answer a process got at the prompt.
AnswerLines(answer) ==
    IF answer = "y" THEN << "y" >>
    ELSE IF answer = "n" THEN << "N" >>
    ELSE << >>

\* The save() of process p, run alone on the tracked files the processes
\* started from.
Alone(p) ==
    save(procs[p].self, last.start, procs[p].override_level,
         AnswerLines(procs[p].answer), "__stdout__")

\* C16: independent identities.  When two processes save objects with
\* different identities (repo) concurrently, under every interleaving of
\* their existence checks and puts each save ends as it would have run
\* alone (same error, same return value, prompted or not alike), and the
\* tracked file at its key is the one it would have left alone.
C16_IndependentSaves ==
    (AllDone /\ procs["p"].self.repo # procs["q"].self.repo) =>
        \A p \in Procs :
            LET a == Alone(p)
                slot == TrackedFile(procs[p].self)
            IN  /\ procs[p].err = a.err
                /\ procs[p].ret = a.ret
                /\ procs[p].prompted = a.prompted
                /\ (slot \in DOMAIN files) = (slot \in DOMAIN a.files)
                /\ slot \in DOMAIN files => files[slot] = a.files[slot]

\* C17: the existence check and the put of save() are separate steps.  A
\* save() that has passed its existence check writes its record at the key
\* and returns True, whatever another process has written there since; so
\* two save(NEVER) of one identity with no tracked file can both pass the
\* check, both write and both return True, the later put replacing the
\* record of the earlier.
C17_CheckThenWrite ==
    [][ \A p \in Procs :
            (procs[p].pc = "put" /\ procs'[p].pc = "done") =>
                /\ procs'[p].ret
                /\ procs'[p].err = NoError
                /\ TrackedFile(procs[p].self) \in DOMAIN files'
                /\ files'[TrackedFile(procs[p].self)] = __dict__(procs[p].self)
      ]_vars

\* C17 witness: two save(NEVER) of one identity, started with no tracked
\* file at its key, have both returned True; the tracked file is the record
\* of the process that put last, not the record of the other.
C17_Witness ==
    /\ AllDone
    /\ procs["p"].self.repo = procs["q"].self.repo
    /\ \A p \in Procs :
           /\ procs[p].override_level = NEVER
           /\ procs[p].ret
           /\ TrackedFile(procs[p].self) \notin DOMAIN last.start
    /\ last.op = "put"
    /\ files[TrackedFile(procs[last.proc].self)] = __dict__(procs[last.proc].self)
    /\ \E p \in Procs :
           files[TrackedFile(procs[p].self)] # __dict__(procs[p].self)

====
